---- MODULE Spec2Model ----
(***************************************************************************)
(* A model of scripts/easylist-monitor.js: one process run (main) loads    *)
(* hashes.json and metadata.json, walks EASYLIST_URLS in order, decides    *)
(* for each list whether it changed, writes the changed lists, then saves  *)
(* the two documents and exits.  Time is counted in minutes.               *)
(***************************************************************************)
EXTENDS Integers, Sequences, FiniteSets, TLC

VARIABLES
  now,              \* the wall clock read by new Date(), in minutes
  hashesFile,       \* hashes.json on disk
  metadataFile,     \* metadata.json on disk
  listFiles,        \* lists/<filename> on disk
  summaryFile,      \* update-summary.json on disk
  pc,               \* position of the process: idle, loop, exited
  i,                \* position of the for loop in Object.entries(EASYLIST_URLS)
  currentHashes,    \* checkForUpdates locals
  currentMetadata,
  newHashes,
  newMetadata,
  updatedLists,
  log,              \* what happened to each list in the running cycle
  wrote,            \* files written successfully in the running cycle
  failedWrites,     \* files whose write threw in the running cycle
  result,           \* value returned by checkForUpdates
  exitCode,         \* argument of process.exit
  commitMessage,    \* main's commitMessage, Null while there is none
  fetches,          \* calls of fetch() so far, over all runs
  call,             \* a method of the monitor called on its own, with its arguments
  returned,         \* the value that call returned
  startedConsistent \* history: the hashes matched the list files when the cycle began

vars == <<now, hashesFile, metadataFile, listFiles, summaryFile, pc, i,
          currentHashes, currentMetadata, newHashes, newMetadata, updatedLists,
          log, wrote, failedWrites, result, exitCode, commitMessage, fetches,
          call, returned, startedConsistent>>

\* the variables of a method call made outside a run of the process
unit == <<call, returned>>

----------------------------------------------------------------------------
(* Bounds of the model *)

\* the clock stops at MaxTime, and the servers answer MaxFetches requests
MaxTime == 135
MaxFetches == 4

\* the longest list of Update Events handed to generateCommitMessage
MaxLists == 3

----------------------------------------------------------------------------
(* JavaScript values *)

Null == "null"
NaN == -1          \* the time value of an Invalid Date
NoDate == -2       \* a Date variable still holding null
EmptyObject == <<>>

Truthy(s) == s # Null /\ s # ""

Has(obj, key) == key \in DOMAIN obj

Assign(obj, key, value) ==
  [k \in DOMAIN obj \cup {key} |-> IF k = key THEN value ELSE obj[k]]

\* a > b on Dates: false when either is an Invalid Date
DateGT(a, b) == a # NaN /\ b # NaN /\ a > b

Instants == 0..MaxTime

toISOString(d) == "iso:" \o ToString(d)

\* a date as a server or a list header writes it
DateText(t) == "date:" \o ToString(t)

DateTable ==
  [s \in {toISOString(t) : t \in Instants} \cup {DateText(t) : t \in Instants} |->
     CHOOSE t \in Instants : s \in {toISOString(t), DateText(t)}]

\* new Date(string)
DateParse(s) == IF s \in DOMAIN DateTable THEN DateTable[s] ELSE NaN

----------------------------------------------------------------------------
(* Configuration *)

Filenames == <<"easylist.txt", "easyprivacy.txt">>

FileSet == {Filenames[k] : k \in 1..Len(Filenames)}

EASYLIST_URLS ==
  [f \in FileSet |->
     IF f = "easylist.txt" THEN "https://easylist.to/easylist/easylist.txt"
     ELSE "https://easylist.to/easylist/easyprivacy.txt"]

ThrottleMinutes == 90

----------------------------------------------------------------------------
(* What the servers can answer.  A list is its header comments and a body. *)

NoHeaders == [version |-> Null, lastModified |-> Null, expires |-> Null, body |-> "||a^"]
Versioned == [version |-> "1.2", lastModified |-> DateText(45), expires |-> "4 days", body |-> "||b^"]
BadDate   == [version |-> Null, lastModified |-> "soon", expires |-> Null, body |-> "||a^"]

Contents == {NoHeaders, Versioned, BadDate}

Response(content, lastModified, etag) ==
  [content |-> content, headers |-> [lastModified |-> lastModified, etag |-> etag]]

Responses ==
  { Response(NoHeaders, Null, Null),
    Response(NoHeaders, DateText(90), "W/1"),
    Response(Versioned, Null, "W/1"),
    Response(Versioned, Null, "W/2"),
    Response(Versioned, DateText(90), Null),
    Response(BadDate, Null, Null) }

FetchError == [error |-> "HTTP 503"]

\* minutes between two runs of the process; a run itself takes seconds
StartDelays == {45, 90}

\* the text of a list
Text(content) ==
  (IF content.version # Null THEN "! Version: " \o content.version \o "\n" ELSE "")
  \o (IF content.lastModified # Null
        THEN "! Last modified: " \o content.lastModified \o "\n" ELSE "")
  \o (IF content.expires # Null THEN "! Expires: " \o content.expires \o "\n" ELSE "")
  \o content.body

----------------------------------------------------------------------------
(* Files on disk *)

NoFile == [absent |-> TRUE]

\* what a write that threw half way leaves of a file
Truncated == [truncated |-> TRUE]

stringify(obj) == [json |-> obj]

\* fs.readFile + JSON.parse, both inside try/catch
loadHashes == IF Has(hashesFile, "json") THEN hashesFile.json ELSE EmptyObject

loadMetadata == IF Has(metadataFile, "json") THEN metadataFile.json ELSE EmptyObject

----------------------------------------------------------------------------
(* Pure methods of EasyListMonitor *)

calculateHash(content) == "sha256:" \o Text(content)

extractVersion(content) ==
  [version |-> content.version,
   lastModified |-> content.lastModified,
   expires |-> content.expires]

parseLastModified(lastModifiedHeader, listContent, t) ==
  LET serverTime == IF Truthy(lastModifiedHeader)
                      THEN DateParse(lastModifiedHeader) ELSE NoDate
      contentTime == IF listContent.lastModified # Null
                       THEN DateParse(listContent.lastModified) ELSE NoDate
  IN  IF serverTime # NoDate /\ contentTime # NoDate
        THEN (IF DateGT(serverTime, contentTime) THEN serverTime ELSE contentTime)
        ELSE IF serverTime # NoDate THEN serverTime
        ELSE IF contentTime # NoDate THEN contentTime
        ELSE t

----------------------------------------------------------------------------
(* checkForUpdates, one loop iteration *)

\* Throttled with the interval cut to 45 minutes
ThrottledTooShort(metadata, filename, t) ==
  /\ Has(metadata, filename)
  /\ Truthy(metadata[filename].lastChecked)
  /\ DateParse(metadata[filename].lastChecked) # NaN
  /\ t - DateParse(metadata[filename].lastChecked) < 45

\* lines 141-150: was this list checked less than 90 minutes ago
Throttled(metadata, filename, t) ==
  /\ Has(metadata, filename)
  /\ Truthy(metadata[filename].lastChecked)
  /\ DateParse(metadata[filename].lastChecked) # NaN
  /\ t - DateParse(metadata[filename].lastChecked) < ThrottleMinutes

\* Method 1: oldHash !== newHash
HashSignal(hashes, filename, newHash) ==
  ~Has(hashes, filename) \/ hashes[filename] # newHash

\* Method 2: lastModified > new Date(oldMetadata.lastModified)
TimestampSignal(metadata, filename, lastModified) ==
  /\ Has(metadata, filename)
  /\ Truthy(metadata[filename].lastModified)
  /\ DateGT(lastModified, DateParse(metadata[filename].lastModified))

\* ETagSignal never raised
ETagSignalNever(metadata, filename, etag) == FALSE

\* Method 3: headers.etag !== oldMetadata.etag
ETagSignal(metadata, filename, etag) ==
  /\ Truthy(etag)
  /\ Has(metadata, filename)
  /\ Truthy(metadata[filename].etag)
  /\ etag # metadata[filename].etag

\* changeReason += (changeReason ? ' and ' : '') + fragment
Append2Reason(changeReason, fragment) ==
  changeReason \o (IF changeReason # "" THEN " and " ELSE "") \o fragment

DetectChange(hashes, metadata, filename, newHash, lastModified, etag) ==
  LET m1 == HashSignal(hashes, filename, newHash)
      m2 == TimestampSignal(metadata, filename, lastModified)
      m3 == ETagSignal(metadata, filename, etag)
      r1 == IF m1 THEN "content hash changed" ELSE ""
      r2 == IF m2 THEN Append2Reason(r1, "timestamp newer") ELSE r1
      r3 == IF m3 THEN Append2Reason(r2, "ETag changed") ELSE r2
  IN  [hasChanged |-> m1 \/ m2 \/ m3, changeReason |-> r3]

\* line 186: if (hasChanged || !oldHash)
TakeUpdateBranch(change, hashes, filename) ==
  change.hasChanged \/ ~Has(hashes, filename) \/ ~Truthy(hashes[filename])

\* lines 198-210: the record pushed on updatedLists
UpdateEvent(filename, response, newHash, lastModified, changeReason) ==
  [filename |-> filename,
   url |-> EASYLIST_URLS[filename],
   hash |-> newHash,
   version |-> extractVersion(response.content).version,
   lastModified |-> toISOString(lastModified),
   serverLastModified |-> response.headers.lastModified,
   etag |-> response.headers.etag,
   size |-> Len(Text(response.content)),
   changeReason |-> changeReason,
   expires |-> extractVersion(response.content).expires]

\* ChangedMetadata stamping lastChecked with the list's own time
ChangedMetadataWrongTime(response, lastModified, t) ==
  [lastModified |-> toISOString(lastModified),
   etag |-> response.headers.etag,
   version |-> extractVersion(response.content).version,
   lastChecked |-> toISOString(lastModified),
   size |-> Len(Text(response.content))]

\* lines 213-219: the metadata entry of a changed list
ChangedMetadata(response, lastModified, t) ==
  [lastModified |-> toISOString(lastModified),
   etag |-> response.headers.etag,
   version |-> extractVersion(response.content).version,
   lastChecked |-> toISOString(t),
   size |-> Len(Text(response.content))]

\* UnchangedMetadata forgetting to stamp lastChecked
UnchangedMetadataStale(metadata, oldMetadata, filename, t) == metadata

\* UnchangedMetadata spreading an entry that lost its etag
UnchangedMetadataDropsETag(metadata, oldMetadata, filename, t) ==
  IF Has(oldMetadata, filename)
    THEN Assign(metadata, filename,
                [oldMetadata[filename] EXCEPT !.lastChecked = toISOString(t),
                                              !.etag = Null])
    ELSE metadata

\* lines 227-232: the metadata of an unchanged list
UnchangedMetadata(metadata, oldMetadata, filename, t) ==
  IF Has(oldMetadata, filename)
    THEN Assign(metadata, filename,
                [oldMetadata[filename] EXCEPT !.lastChecked = toISOString(t)])
    ELSE metadata

\* AfterCatch leaving the loop, as a catch around the whole loop would
AfterCatchBreak(k) == Len(Filenames) + 1

\* AfterCatch running the same iteration again
AfterCatchRetry(k) == k

\* lines 238-241: the catch block ends the iteration, the loop goes on
AfterCatch(k) == k + 1

NotExamined == [outcome |-> "none", at |-> 0, response |-> FetchError]

Logged(outcome, at, response) ==
  [outcome |-> outcome, at |-> at, response |-> response]

\* SkipResource recording the skipped check as a check
SkipResourceStamps ==
  /\ pc = "loop" /\ i <= Len(Filenames)
  /\ Throttled(currentMetadata, Filenames[i], now)
  /\ i' = i + 1
  /\ log' = [log EXCEPT ![Filenames[i]] = Logged("throttled", now, FetchError)]
  /\ newMetadata' = [newMetadata EXCEPT ![Filenames[i]].lastChecked = toISOString(now)]
  /\ UNCHANGED <<now, hashesFile, metadataFile, listFiles, summaryFile, pc,
                 currentHashes, currentMetadata, newHashes,
                 updatedLists, wrote, failedWrites, result, exitCode,
                 commitMessage, fetches, unit, startedConsistent>>

\* line 148: continue
SkipResource ==
  /\ pc = "loop" /\ i <= Len(Filenames)
  /\ Throttled(currentMetadata, Filenames[i], now)
  /\ i' = i + 1
  /\ log' = [log EXCEPT ![Filenames[i]] = Logged("throttled", now, FetchError)]
  /\ UNCHANGED <<now, hashesFile, metadataFile, listFiles, summaryFile, pc,
                 currentHashes, currentMetadata, newHashes, newMetadata,
                 updatedLists, wrote, failedWrites, result, exitCode,
                 commitMessage, fetches, unit,
                 startedConsistent>>

\* line 152 throws: fetchList rethrows a network error or a non-ok status
FetchFails ==
  /\ pc = "loop" /\ i <= Len(Filenames)
  /\ ~Throttled(currentMetadata, Filenames[i], now)
  /\ fetches < MaxFetches
  /\ fetches' = fetches + 1
  /\ log' = [log EXCEPT ![Filenames[i]] = Logged("fetch_failed", now, FetchError)]
  /\ i' = AfterCatch(i)
  /\ UNCHANGED <<now, hashesFile, metadataFile, listFiles, summaryFile, pc,
                 currentHashes, currentMetadata, newHashes, newMetadata,
                 updatedLists, wrote, failedWrites, result, exitCode,
                 commitMessage, unit,
                 startedConsistent>>

\* lines 152-236 with a response: detect, and write the list if it changed
FetchSucceeds ==
  /\ pc = "loop" /\ i <= Len(Filenames)
  /\ ~Throttled(currentMetadata, Filenames[i], now)
  /\ fetches < MaxFetches
  /\ fetches' = fetches + 1
  /\ \E response \in Responses, writeOk \in BOOLEAN :
       LET filename == Filenames[i]
           t == now
           newHash == calculateHash(response.content)
           lastModified == parseLastModified(response.headers.lastModified, response.content, t)
           change == DetectChange(currentHashes, currentMetadata, filename, newHash,
                                  lastModified, response.headers.etag)
       IN
       /\ IF TakeUpdateBranch(change, currentHashes, filename)
            THEN IF lastModified = NaN
              THEN \* line 189: toISOString of an Invalid Date throws RangeError
                   /\ writeOk
                   /\ i' = AfterCatch(i)
                   /\ log' = [log EXCEPT ![filename] = Logged("error", now, response)]
                   /\ UNCHANGED <<listFiles, updatedLists, newHashes, newMetadata,
                                  wrote, failedWrites>>
              ELSE IF writeOk
              THEN /\ listFiles' = [listFiles EXCEPT ![filename] = response.content]
                   /\ wrote' = wrote \cup {filename}
                   /\ updatedLists' = Append(updatedLists,
                        UpdateEvent(filename, response, newHash, lastModified, change.changeReason))
                   /\ newHashes' = Assign(newHashes, filename, newHash)
                   /\ newMetadata' = Assign(newMetadata, filename,
                                            ChangedMetadata(response, lastModified, t))
                   /\ i' = i + 1
                   /\ log' = [log EXCEPT ![filename] = Logged("changed", now, response)]
                   /\ UNCHANGED failedWrites
              ELSE \* line 196 throws: caught at line 238; the file is as it
                   \* was (it could not be opened) or is cut short
                   /\ listFiles' \in {listFiles,
                                      [listFiles EXCEPT ![filename] = Truncated]}
                   /\ failedWrites' = failedWrites \cup {filename}
                   /\ i' = AfterCatch(i)
                   /\ log' = [log EXCEPT ![filename] = Logged("error", now, response)]
                   /\ UNCHANGED <<updatedLists, newHashes, newMetadata, wrote>>
            ELSE /\ writeOk
                 /\ newMetadata' = UnchangedMetadata(newMetadata, currentMetadata, filename, t)
                 /\ i' = i + 1
                 /\ log' = [log EXCEPT ![filename] = Logged("unchanged", now, response)]
                 /\ UNCHANGED <<listFiles, updatedLists, newHashes, wrote, failedWrites>>
  /\ UNCHANGED <<now, hashesFile, metadataFile, summaryFile, pc,
                 currentHashes, currentMetadata, result, exitCode,
                 commitMessage, unit,
                 startedConsistent>>

ProcessResource == SkipResource \/ FetchFails \/ FetchSucceeds

----------------------------------------------------------------------------
(* The process: main calls checkForUpdates and exits *)

NoResult == [threw |-> TRUE]

\* crypto's sha256 of a file as it is on disk
Digest(file) == IF Has(file, "body") THEN "sha256:" \o Text(file) ELSE "sha256:"

\* every entry of hashes.json is the digest of its list file
StoreConsistent ==
  \A f \in FileSet : Has(loadHashes, f) => loadHashes[f] = Digest(listFiles[f])

\* lines 126-134: a new process is started; both documents are loaded.
\* The first run starts at minute 0, a later run StartDelays after the one
\* before it.
\* A run starts only while the servers still answer every list it will fetch.
StartCycle ==
  /\ pc \in {"idle", "exited"}
  /\ \E d \in (IF pc = "idle" THEN {0} ELSE StartDelays) :
       /\ now + d <= MaxTime
       /\ fetches + Cardinality({f \in FileSet : ~Throttled(loadMetadata, f, now + d)})
            <= MaxFetches
       /\ now' = now + d
  /\ pc' = "loop"
  /\ i' = 1
  /\ currentHashes' = loadHashes
  /\ currentMetadata' = loadMetadata
  /\ newHashes' = loadHashes
  /\ newMetadata' = loadMetadata
  /\ updatedLists' = <<>>
  /\ log' = [f \in FileSet |-> NotExamined]
  /\ wrote' = {}
  /\ failedWrites' = {}
  /\ result' = NoResult
  /\ exitCode' = -1
  /\ commitMessage' = Null
  /\ startedConsistent' = StoreConsistent
  /\ UNCHANGED <<hashesFile, metadataFile, listFiles, summaryFile, fetches, unit>>

\* HasUpdates taking the first branch in every cycle
HasUpdatesAlways(lists) == TRUE

\* line 243: if (updatedLists.length > 0)
HasUpdates(lists) == Len(lists) > 0

\* lines 249-253
Summary(lists, t) ==
  [updated |-> Len(lists), timestamp |-> toISOString(t), lists |-> lists]

\* one line of the list of updated files
Bullet(list) ==
  "- " \o list.filename
       \o (IF Truthy(list.version) THEN " (v" \o list.version \o ")" ELSE "")

\* Array.prototype.join
RECURSIVE Join(_, _)
Join(strings, separator) ==
  IF Len(strings) = 0 THEN ""
  ELSE IF Len(strings) = 1 THEN strings[1]
  ELSE strings[1] \o separator \o Join(Tail(strings), separator)

\* generateCommitMessage without its branch for a single list
generateCommitMessagePlural(lists) ==
  "Update " \o ToString(Len(lists)) \o " EasyList files\n\n"
    \o Join([k \in 1..Len(lists) |-> Bullet(lists[k])], "\n")

\* lines 268-277
generateCommitMessage(lists) ==
  IF Len(lists) = 1
    THEN "Update " \o lists[1].filename
           \o (IF Truthy(lists[1].version) THEN " to v" \o lists[1].version ELSE "")
    ELSE "Update " \o ToString(Len(lists)) \o " EasyList files\n\n"
           \o Join([k \in 1..Len(lists) |-> Bullet(lists[k])], "\n")

\* a write of the persisting step throws: main's catch exits with 1
Abort(file) ==
  /\ failedWrites' = failedWrites \cup {file}
  /\ result' = NoResult
  /\ exitCode' = 1
  /\ UNCHANGED commitMessage

\* lines 243-260 and 287-301: lists were updated
PersistUpdates ==
  /\ pc = "loop" /\ i > Len(Filenames)
  /\ HasUpdates(updatedLists)
  /\ pc' = "exited"
  /\ \/ /\ hashesFile' = stringify(newHashes)
        /\ metadataFile' = stringify(newMetadata)
        /\ summaryFile' = stringify(Summary(updatedLists, now))
        /\ wrote' = wrote \cup {"hashes.json", "metadata.json", "update-summary.json"}
        /\ result' = [hasUpdates |-> TRUE, updatedLists |-> updatedLists,
                      summary |-> Summary(updatedLists, now)]
        /\ commitMessage' = generateCommitMessage(updatedLists)
        /\ exitCode' = 0
        /\ UNCHANGED failedWrites
     \/ /\ wrote' = wrote
        /\ Abort("hashes.json")
        /\ UNCHANGED <<hashesFile, metadataFile, summaryFile>>
     \/ /\ hashesFile' = stringify(newHashes)
        /\ wrote' = wrote \cup {"hashes.json"}
        /\ Abort("metadata.json")
        /\ UNCHANGED <<metadataFile, summaryFile>>
     \/ /\ hashesFile' = stringify(newHashes)
        /\ metadataFile' = stringify(newMetadata)
        /\ wrote' = wrote \cup {"hashes.json", "metadata.json"}
        /\ Abort("update-summary.json")
        /\ UNCHANGED summaryFile
  /\ UNCHANGED <<now, listFiles, i, currentHashes, currentMetadata,
                 newHashes, newMetadata, updatedLists, log, fetches, unit,
                 startedConsistent>>

\* lines 261-264 and 302-310: nothing was updated
PersistNoUpdates ==
  /\ pc = "loop" /\ i > Len(Filenames)
  /\ ~HasUpdates(updatedLists)
  /\ pc' = "exited"
  /\ \/ /\ metadataFile' = stringify(newMetadata)
        /\ wrote' = wrote \cup {"metadata.json"}
        /\ result' = [hasUpdates |-> FALSE, updatedLists |-> <<>>, summary |-> Null]
        /\ exitCode' = 0
        /\ UNCHANGED <<failedWrites, commitMessage>>
     \/ /\ wrote' = wrote
        /\ Abort("metadata.json")
        /\ UNCHANGED metadataFile
  /\ UNCHANGED <<now, hashesFile, listFiles, summaryFile, i, currentHashes,
                 currentMetadata, newHashes, newMetadata, updatedLists, log, fetches,
                 unit, startedConsistent>>

Persist == PersistUpdates \/ PersistNoUpdates

\* the process before its first run, on an empty store
InitProcess ==
  /\ now = 0
  /\ hashesFile = NoFile
  /\ metadataFile = NoFile
  /\ listFiles = [f \in FileSet |-> NoFile]
  /\ summaryFile = NoFile
  /\ pc = "idle"
  /\ i = 1
  /\ currentHashes = EmptyObject
  /\ currentMetadata = EmptyObject
  /\ newHashes = EmptyObject
  /\ newMetadata = EmptyObject
  /\ updatedLists = <<>>
  /\ log = [f \in FileSet |-> NotExamined]
  /\ wrote = {}
  /\ failedWrites = {}
  /\ result = NoResult
  /\ exitCode = -1
  /\ commitMessage = Null
  /\ fetches = 0
  /\ startedConsistent = TRUE

NoCall == [method |-> "none", done |-> FALSE]

Init == InitProcess /\ call = NoCall /\ returned = Null

Next == StartCycle \/ ProcessResource \/ Persist

Spec == Init /\ [][Next]_vars

\* the event loop resumes an awaited call once it returns or throws
FairSpec == Spec /\ WF_vars(ProcessResource) /\ WF_vars(Persist)

----------------------------------------------------------------------------
(* The methods that compute a value from their arguments alone, called on   *)
(* a monitor that runs no cycle                                             *)

\* what a Last-Modified header or a "! Last modified:" line can hold
DateTexts == {Null, "soon", DateText(45), DateText(90)}

\* the clock when parseLastModified is called
CallTimes == {0, 60}

ParseLastModifiedCalls ==
  {[method |-> "parseLastModified", done |-> FALSE,
    lastModifiedHeader |-> h,
    listContent |-> [NoHeaders EXCEPT !.lastModified = c],
    t |-> t] : h \in DateTexts, c \in DateTexts, t \in CallTimes}

\* the Update Events the lists handed to generateCommitMessage are made of
ListEvents ==
  {UpdateEvent(f, r, calculateHash(r.content), 45, "content hash changed") :
     f \in FileSet,
     r \in {Response(NoHeaders, Null, Null), Response(Versioned, Null, "W/1")}}

GenerateCommitMessageCalls ==
  {[method |-> "generateCommitMessage", done |-> FALSE, updatedLists |-> lists] :
     lists \in UNION {[1..n -> ListEvents] : n \in 0..MaxLists}}

UnitInit ==
  /\ InitProcess
  /\ call \in ParseLastModifiedCalls \cup GenerateCommitMessageCalls
  /\ returned = Null

CallParseLastModified ==
  /\ call.method = "parseLastModified" /\ ~call.done
  /\ returned' = parseLastModified(call.lastModifiedHeader, call.listContent, call.t)
  /\ call' = [call EXCEPT !.done = TRUE]
  /\ UNCHANGED <<now, hashesFile, metadataFile, listFiles, summaryFile, pc, i,
                 currentHashes, currentMetadata, newHashes, newMetadata,
                 updatedLists, log, wrote, failedWrites, result, exitCode,
                 commitMessage, fetches, startedConsistent>>

CallGenerateCommitMessage ==
  /\ call.method = "generateCommitMessage" /\ ~call.done
  /\ returned' = generateCommitMessage(call.updatedLists)
  /\ call' = [call EXCEPT !.done = TRUE]
  /\ UNCHANGED <<now, hashesFile, metadataFile, listFiles, summaryFile, pc, i,
                 currentHashes, currentMetadata, newHashes, newMetadata,
                 updatedLists, log, wrote, failedWrites, result, exitCode,
                 commitMessage, fetches, startedConsistent>>

UnitNext == CallParseLastModified \/ CallGenerateCommitMessage

UnitSpec == UnitInit /\ [][UnitNext]_vars

----------------------------------------------------------------------------
(* Vocabulary of the properties *)

\* the positions in updatedLists of the Update Events of a list
EventsFor(f) == {k \in 1..Len(updatedLists) : updatedLists[k].filename = f}

\* fetchList returned a response for f in the running cycle
Fetched(f) == log[f].outcome \in {"changed", "unchanged", "error"}

\* the iteration of f ran to its end without an exception
Classified(f) == log[f].outcome \in {"changed", "unchanged"}

\* f is reported changed: an Update Event was pushed for it
ReportedChanged(f) == log[f].outcome = "changed" /\ EventsFor(f) # {}

\* nothing of f was touched by the running cycle
Untouched(f) ==
  /\ EventsFor(f) = {}
  /\ f \notin wrote
  /\ Has(newHashes, f) = Has(currentHashes, f)
  /\ Has(newHashes, f) => newHashes[f] = currentHashes[f]
  /\ Has(newMetadata, f) = Has(currentMetadata, f)
  /\ Has(newMetadata, f) => newMetadata[f] = currentMetadata[f]

\* what is on disk for f is what was loaded when the cycle began
PersistedAsLoaded(f) ==
  /\ Has(loadHashes, f) = Has(currentHashes, f)
  /\ Has(loadHashes, f) => loadHashes[f] = currentHashes[f]
  /\ Has(loadMetadata, f) = Has(currentMetadata, f)
  /\ Has(loadMetadata, f) => loadMetadata[f] = currentMetadata[f]

StateDocuments == {"hashes.json", "metadata.json"}

----------------------------------------------------------------------------
(* C1: a list fetched while hashes.json has no entry for it is reported     *)
(* changed and its Update Event carries the changeReason "first time".      *)
(* The code records "content hash changed": undefined !== newHash sets the  *)
(* reason before the "first time" fallback of line 187 is looked at.        *)
C1_FirstTimeReason ==
  \A f \in FileSet :
    (Classified(f) /\ ~Has(currentHashes, f)) =>
       /\ ReportedChanged(f)
       /\ \A k \in EventsFor(f) : updatedLists[k].changeReason = "first time"

(* C2: same digest, ETag equal or absent, timestamp not newer or absent     *)
(* from both header and body: the list is reported unchanged.  The code     *)
(* takes the current time for a list without any timestamp, which is newer  *)
(* than the stored lastModified.                                            *)
TimestampAbsent(response) ==
  ~Truthy(response.headers.lastModified) /\ response.content.lastModified = Null

C2_IdenticalUnchanged ==
  \A f \in FileSet :
    ( /\ Classified(f)
      /\ Has(currentHashes, f)
      /\ currentHashes[f] = calculateHash(log[f].response.content)
      /\ \/ log[f].response.headers.etag = Null
         \/ Has(currentMetadata, f)
              /\ log[f].response.headers.etag = currentMetadata[f].etag
      /\ \/ TimestampAbsent(log[f].response)
         \/ ~Has(currentMetadata, f)
         \/ ~DateGT(parseLastModified(log[f].response.headers.lastModified,
                                      log[f].response.content, log[f].at),
                    DateParse(currentMetadata[f].lastModified)) )
    => /\ log[f].outcome = "unchanged"
       /\ EventsFor(f) = {}
       /\ f \notin wrote
       /\ newHashes[f] = currentHashes[f]

(* C3: a list whose loaded lastChecked is less than 90 minutes old when it  *)
(* is examined is not fetched, and its hash entry, its metadata entry and   *)
(* its content file are left as they were loaded; no Update Event.          *)
C3_ThrottledUntouched ==
  \A f \in FileSet :
    ( /\ log[f].outcome # "none"
      /\ Has(currentMetadata, f)
      /\ log[f].at - DateParse(currentMetadata[f].lastChecked) < 90 )
    => /\ log[f].outcome = "throttled"
       /\ Untouched(f)
       /\ f \notin failedWrites
       /\ pc = "exited" => PersistedAsLoaded(f)

C3_Witness ==
  /\ pc = "exited"
  /\ "hashes.json" \in wrote
  /\ \E f \in FileSet :
       /\ log[f].outcome = "throttled"
       /\ log[f].at - DateParse(currentMetadata[f].lastChecked) = 45

(* C4: a failed fetch is caught for its list only: the other lists are      *)
(* still examined, the failed list yields no Update Event, and the process  *)
(* exits with 0 when the state files can be written.                        *)
C4_FetchFailureIsolated ==
  \A f \in FileSet :
    log[f].outcome = "fetch_failed" =>
       /\ Untouched(f)
       /\ pc = "loop" => \A k \in 1..Len(Filenames) : Filenames[k] = f => i > k
       /\ pc = "exited" =>
            /\ \A g \in FileSet : log[g].outcome # "none"
            /\ (failedWrites \cap (StateDocuments \cup {"update-summary.json"}) = {})
                 => exitCode = 0

C4_Witness ==
  /\ pc = "exited"
  /\ exitCode = 0
  /\ log[Filenames[1]].outcome = "fetch_failed"
  /\ ReportedChanged(Filenames[2])

(* C5: every failed write of a cycle (hashes.json, metadata.json, the       *)
(* summary, a list file) ends the process with a non-zero exit code.        *)
(* The write of a list file is inside the per-list try: its failure is      *)
(* logged and the process still exits with 0.                               *)
C5_WriteFailureFatal ==
  (pc = "exited" /\ failedWrites # {}) => exitCode = 1

Matches(f) ==
  /\ Has(currentHashes, f)
  /\ currentHashes[f] = calculateHash(log[f].response.content)
  /\ Has(currentMetadata, f)
  /\ log[f].response.headers.etag = currentMetadata[f].etag
  /\ ~DateGT(parseLastModified(log[f].response.headers.lastModified,
                               log[f].response.content, log[f].at),
             DateParse(currentMetadata[f].lastModified))

\* some list was fetched, and every fetched list matches
AllFetchedMatch ==
  /\ \E f \in FileSet : Fetched(f)
  /\ \A f \in FileSet : Fetched(f) => Matches(f)

NothingNewPersisted ==
  /\ wrote = {"metadata.json"}
  /\ \A f \in FileSet :
       Fetched(f) =>
         /\ Has(loadMetadata, f)
         /\ loadMetadata[f] =
              [currentMetadata[f] EXCEPT !.lastChecked = toISOString(log[f].at)]
  /\ result = [hasUpdates |-> FALSE, updatedLists |-> <<>>, summary |-> Null]
  /\ exitCode = 0

SameEntry(obj1, obj2, key) ==
  /\ Has(obj1, key) = Has(obj2, key)
  /\ Has(obj1, key) => obj1[key] = obj2[key]

\* the lists before position i, and only they, have been examined
ExaminedInOrder ==
  /\ i \in 1..(Len(Filenames) + 1)
  /\ \A k \in 1..Len(Filenames) : (log[Filenames[k]].outcome # "none") <=> (k < i)

\* an iteration examines Filenames[i], moves to the next list, and leaves
\* the entries of every other list and the loaded documents alone
IterationIsLocal ==
  (pc = "loop" /\ pc' = "loop" /\ i <= Len(Filenames)) =>
     /\ i' = i + 1
     /\ log'[Filenames[i]].outcome # "none"
     /\ currentHashes' = currentHashes
     /\ currentMetadata' = currentMetadata
     /\ \A g \in FileSet \ {Filenames[i]} :
          /\ log'[g] = log[g]
          /\ listFiles'[g] = listFiles[g]
          /\ SameEntry(newHashes', newHashes, g)
          /\ SameEntry(newMetadata', newMetadata, g)
          /\ {k \in 1..Len(updatedLists') : updatedLists'[k].filename = g} = EventsFor(g)

(* C8: every cycle reaches its end: whatever happens to each list           *)
(* (throttled, fetch failed, unchanged, changed), the loop examines each    *)
(* list once, in the order of EASYLIST_URLS, then the persisting step runs  *)
(* and the process exits; an iteration changes nothing of another list.     *)
C8_CycleTerminates ==
  /\ [](pc = "loop" => ExaminedInOrder)
  /\ [](pc = "exited" => \A f \in FileSet : log[f].outcome # "none")
  /\ [][IterationIsLocal]_vars
  /\ (pc = "loop") ~> (pc = "exited" /\ exitCode \in {0, 1})

C8_Witness ==
  /\ pc = "exited"
  /\ log[Filenames[1]].outcome = "throttled"
  /\ log[Filenames[2]].outcome = "fetch_failed"

C10_HashEntryOnceFetched ==
  pc = "exited" =>
     \A f \in FileSet :
       /\ (exitCode = 0 /\ Fetched(f)) => Has(loadHashes, f)
       /\ Has(currentHashes, f) => Has(loadHashes, f)

----------------------------------------------------------------------------
(* Properties of the methods called on their own *)

\* the later of two parsed times; a text that is no date gives no time
Later(a, b) ==
  IF a = NaN THEN b ELSE IF b = NaN THEN a ELSE IF a > b THEN a ELSE b

ParseLastModifiedReturned == call.method = "parseLastModified" /\ call.done

(* C11: the effective last-modified time is the later of the time parsed    *)
(* from the Last-Modified header and the time parsed from the list's        *)
(* "! Last modified:" line when both are present, the one present when only *)
(* one is, and the current time when neither is.  With a valid header and   *)
(* an unparsable line the code returns the Invalid Date of the line:        *)
(* serverTime > contentTime is false against an Invalid Date.               *)
C11_EffectiveLastModified ==
  ParseLastModifiedReturned =>
    LET header == call.lastModifiedHeader
        line == call.listContent.lastModified
    IN  /\ (header # Null /\ line # Null) =>
              returned = Later(DateParse(header), DateParse(line))
        /\ (header # Null /\ line = Null) => returned = DateParse(header)
        /\ (header = Null /\ line # Null) => returned = DateParse(line)
        /\ (header = Null /\ line = Null) => returned = call.t

GenerateCommitMessageReturned == call.method = "generateCommitMessage" /\ call.done

\* the text after a file name: the version between before and after, if any
VersionPart(list, before, after) ==
  IF list.version # Null THEN before \o list.version \o after ELSE ""

\* the lines "- <filename>[ (v<version>)]" of lists from position k on
RECURSIVE BulletLines(_, _)
BulletLines(lists, k) ==
  IF k > Len(lists) THEN ""
  ELSE "- " \o lists[k].filename \o VersionPart(lists[k], " (v", ")")
         \o (IF k < Len(lists) THEN "\n" ELSE "")
         \o BulletLines(lists, k + 1)

(* C12: for one changed list the commit message is "Update <filename>",     *)
(* followed by " to v<version>" iff the list has a version; for any other   *)
(* number N it is the line "Update <N> EasyList files", a blank line, and   *)
(* one line "- <filename>" per list in the order of the lists, each         *)
(* followed by " (v<version>)" iff that list has a version.                 *)
C12_CommitMessageFormat ==
  GenerateCommitMessageReturned =>
    LET lists == call.updatedLists
    IN  IF Len(lists) = 1
          THEN returned = "Update " \o lists[1].filename
                            \o VersionPart(lists[1], " to v", "")
          ELSE returned = "Update " \o ToString(Len(lists)) \o " EasyList files"
                            \o "\n" \o "\n" \o BulletLines(lists, 1)

C12_Witness ==
  /\ GenerateCommitMessageReturned
  /\ Len(call.updatedLists) = 2
  /\ call.updatedLists[1].filename = "easyprivacy.txt"
  /\ call.updatedLists[1].version = Null
  /\ call.updatedLists[2].filename = "easylist.txt"
  /\ call.updatedLists[2].version = "1.2"
  /\ returned = "Update 2 EasyList files\n\n- easyprivacy.txt\n- easylist.txt (v1.2)"

----------------------------------------------------------------------------
(* Properties of the change decision *)

\* the three signals of a fetched list, from its response and the loaded
\* documents
DigestDiffers(f) ==
  ~Has(currentHashes, f) \/ currentHashes[f] # calculateHash(log[f].response.content)

EffectiveTime(f) ==
  parseLastModified(log[f].response.headers.lastModified,
                    log[f].response.content, log[f].at)

TimestampNewer(f) ==
  /\ Has(currentMetadata, f)
  /\ currentMetadata[f].lastModified # Null
  /\ DateGT(EffectiveTime(f), DateParse(currentMetadata[f].lastModified))

ETagDiffers(f) ==
  /\ log[f].response.headers.etag # Null
  /\ Has(currentMetadata, f)
  /\ currentMetadata[f].etag # Null
  /\ log[f].response.headers.etag # currentMetadata[f].etag

\* the fragments of the signals that are true, in their order
Fragments(hash, timestamp, tag) ==
  CASE hash /\ timestamp /\ tag -> "content hash changed and timestamp newer and ETag changed"
    [] hash /\ timestamp /\ ~tag -> "content hash changed and timestamp newer"
    [] hash /\ ~timestamp /\ tag -> "content hash changed and ETag changed"
    [] hash /\ ~timestamp /\ ~tag -> "content hash changed"
    [] ~hash /\ timestamp /\ tag -> "timestamp newer and ETag changed"
    [] ~hash /\ timestamp /\ ~tag -> "timestamp newer"
    [] ~hash /\ ~timestamp /\ tag -> "ETag changed"
    [] OTHER -> ""

(* C13: the change decision for a fetched list is the union of three        *)
(* signals evaluated independently: the digest differs from the stored hash *)
(* or no hash is stored; a lastModified is stored and the effective time is *)
(* strictly later; an ETag is sent and stored and the two differ.  The      *)
(* update branch is taken iff a signal is true, an iteration that ends      *)
(* without an exception reports the list changed iff a signal is true, and  *)
(* changeReason is the fragments of the true signals, in the order hash,    *)
(* timestamp, ETag, joined by " and ".                                      *)
C13_UnionOfSignals ==
  \A f \in FileSet :
    Fetched(f) =>
      LET any == DigestDiffers(f) \/ TimestampNewer(f) \/ ETagDiffers(f)
      IN  /\ (log[f].outcome \in {"changed", "error"}) <=> any
          /\ Classified(f) => (ReportedChanged(f) <=> any)
          /\ ReportedChanged(f) =>
                \A k \in EventsFor(f) :
                  updatedLists[k].changeReason =
                    Fragments(DigestDiffers(f), TimestampNewer(f), ETagDiffers(f))

\* a list reported changed and rewritten while its digest is the stored hash
C13_Witness ==
  \E f \in FileSet :
    /\ ReportedChanged(f)
    /\ f \in wrote
    /\ Has(currentHashes, f)
    /\ currentHashes[f] = calculateHash(log[f].response.content)
    /\ listFiles[f] = log[f].response.content
    /\ \A k \in EventsFor(f) : updatedLists[k].changeReason = "ETag changed"

(* C14: whenever a list is classified unchanged it has a metadata entry,    *)
(* so that its lastChecked is recorded: the branch "unchanged without a     *)
(* metadata entry" is never taken, whatever cycles ran before, failed       *)
(* writes included.  When saveHashes succeeds and saveMetadata throws, the  *)
(* store holds a hash without a metadata entry, and the next fetch of the   *)
(* same content is classified unchanged with nothing to stamp.              *)
C14_UnchangedHasMetadata ==
  \A f \in FileSet :
    log[f].outcome = "unchanged" =>
       /\ Has(currentMetadata, f)
       /\ Has(newMetadata, f)
       /\ newMetadata[f].lastChecked = toISOString(log[f].at)

\* entry is prior with nothing but lastChecked replaced
OnlyLastCheckedDiffers(entry, prior, t) ==
  /\ entry.lastModified = prior.lastModified
  /\ entry.etag = prior.etag
  /\ entry.version = prior.version
  /\ entry.size = prior.size
  /\ entry.lastChecked = toISOString(t)
  /\ DOMAIN entry = DOMAIN prior

(* C15: a fetched list that has a metadata entry and is classified          *)
(* unchanged keeps the lastModified, etag, version and size of that entry,  *)
(* whatever headers the response carries; only lastChecked becomes the time *)
(* of the check, in memory and in the metadata.json the cycle writes, and   *)
(* its hash entry is left as it was.                                        *)
C15_UnchangedKeepsEntry ==
  \A f \in FileSet :
    (log[f].outcome = "unchanged" /\ Has(currentMetadata, f)) =>
       /\ Has(newMetadata, f)
       /\ OnlyLastCheckedDiffers(newMetadata[f], currentMetadata[f], log[f].at)
       /\ SameEntry(newHashes, currentHashes, f)
       /\ pc = "exited" =>
            /\ SameEntry(loadHashes, currentHashes, f)
            /\ "metadata.json" \in wrote =>
                  OnlyLastCheckedDiffers(loadMetadata[f], currentMetadata[f], log[f].at)

\* the response carries an ETag and a Last-Modified where the entry has no
\* ETag: the entry still has none after the cycle
C15_Witness ==
  \E f \in FileSet :
    /\ pc = "exited" /\ exitCode = 0
    /\ log[f].outcome = "unchanged"
    /\ Has(currentMetadata, f)
    /\ currentMetadata[f].etag = Null
    /\ log[f].response.headers.etag = "W/1"
    /\ loadMetadata[f].etag = Null
    /\ loadMetadata[f].lastChecked = toISOString(90)
    /\ currentMetadata[f].lastChecked = toISOString(0)

(* C16: when every entry of hashes.json is the digest of its list file as   *)
(* a cycle begins and the cycle exits with 0, every entry of hashes.json is *)
(* the digest of its list file after the cycle; hence after any sequence of *)
(* such cycles.  A list write that throws after cutting the file short is   *)
(* absorbed by the per-list catch: the cycle exits with 0, the file is cut  *)
(* and hashes.json keeps the digest of the old content.                     *)
C16_HashesMatchFiles ==
  (pc = "exited" /\ exitCode = 0 /\ startedConsistent) => StoreConsistent

----------------------------------------------------------------------------
(* Properties of the throttle over several cycles *)

(* C17: the throttle never extends itself.  A throttled check leaves the    *)
(* list's lastChecked as it was loaded, in memory and on disk after the     *)
(* cycle, and a list examined 90 minutes or more after its recorded         *)
(* lastChecked is never skipped: a fetch is attempted for it.               *)
C17_ThrottleNeverExtends ==
  \A f \in FileSet :
    /\ log[f].outcome = "throttled" =>
          /\ Has(currentMetadata, f) /\ Has(newMetadata, f)
          /\ newMetadata[f].lastChecked = currentMetadata[f].lastChecked
          /\ pc = "exited" =>
                /\ Has(loadMetadata, f)
                /\ loadMetadata[f].lastChecked = currentMetadata[f].lastChecked
    /\ ( /\ log[f].outcome # "none"
         /\ Has(currentMetadata, f)
         /\ log[f].at - DateParse(currentMetadata[f].lastChecked) >= 90 )
       => log[f].outcome \in {"fetch_failed", "changed", "unchanged", "error"}

\* the first list is fetched at minute 90 on its check of minute 0; the
\* second list's check of minute 45 shows the cycle that ran in between,
\* in which the first list was examined first and skipped
C17_Witness ==
  /\ log[Filenames[1]].outcome \in {"fetch_failed", "changed", "unchanged", "error"}
  /\ log[Filenames[1]].at = 90
  /\ Has(currentMetadata, Filenames[1])
  /\ currentMetadata[Filenames[1]].lastChecked = toISOString(0)
  /\ Has(currentMetadata, Filenames[2])
  /\ currentMetadata[Filenames[2]].lastChecked = toISOString(45)

====
